---------------------------- MODULE Spec2Model ----------------------------
(***************************************************************************)
(* Model of the two generated workflow-engine classes of                   *)
(* services/self-evolution-engine/evolution-agent.ts:                      *)
(*   DynamicTaskGraph        (executeAsync, getReadyTasks, executeTask)    *)
(*   SelfHealingOrchestrator (autoRecover and its recovery strategies)     *)
(*                                                                         *)
(* JavaScript is single threaded: the synchronous part of executeAsync     *)
(* (building the graph, the launch loop) runs without interleaving, and    *)
(* agent executions settle only while executeAsync is suspended at         *)
(* `await Promise.race(executing)` or after it has ended.                  *)
(***************************************************************************)
EXTENDS Integers, Sequences, FiniteSets, TLC

(* ------------------------------ bounds -------------------------------- *)

\* Number of distinct task ids a workflow may use.
MaxNodes == 3
\* Priorities of the workflow's nodes range over 1..MaxPriority.
MaxPriority == 2
\* `private maxConcurrency: number = 16`, scaled down to keep the model finite.
maxConcurrency == 2
\* The `ready` array is unbounded in the code; the model stops a run whose
\* array would grow beyond MaxReady.
MaxReady == 7
\* Promises spliced out of `executing` while still pending keep running; the
\* model stops a run that would hold more than MaxDetached of them.
MaxDetached == 3
\* Per-node dispatch counter saturates at MaxCount.
MaxCount == 2
\* Execution contexts hold 0..MaxCheckpoints checkpoints, currentStep 0..MaxStep.
MaxCheckpoints == 2
MaxStep == 2
\* Successive executeAsync calls on one object: workflows of up to MaxRunNodes
\* nodes with ids in 1..MaxRunNodes and at most MaxRunDeps dependencies each,
\* MaxRuns calls.
MaxRunNodes == 2
MaxRunDeps == 1
MaxRuns == 2
\* Evolution cycles: MaxCycles iterations of the loop, up to MaxTasks tasks
\* generated in each.
MaxCycles == 2
MaxTasks == 2
\* Scorer inputs range over the grid -25, 0, 25, ..., 25 * (ScoreSteps + 1).
ScoreSteps == 4

Ids == 1..MaxNodes
Priorities == 1..MaxPriority

(* ------------------------------- state -------------------------------- *)

VARIABLES
  workflow,       \* the TaskNode[] argument of executeAsync
  nodes,          \* this.nodes: Map<string, TaskNode>, in insertion order
  executionPool,  \* this.executionPool: the keys of the map (only .has is read)
  ready,          \* local `ready`: TaskNode ids, in array order
  executing,      \* local `executing`: the promises, in array order
  detached,       \* pending promises no longer held by `executing`, per node
  pc,             \* position of executeAsync
  raceResult,     \* how the pending Promise.race settles: none / ok / err
  completed,      \* history: nodes whose agent run has fulfilled at least once
  failed,         \* history: nodes whose agent run has rejected at least once
  dispatched      \* history: per node, number of calls of executeTask (saturating)

schedVars == <<workflow, nodes, executionPool, ready, executing, detached, pc,
               raceResult, completed, failed, dispatched>>

VARIABLES
  context,        \* the execution context: checkpoints and currentStep
  rpc,            \* position of autoRecover
  strategyIdx,    \* index of the `for (const strategy of strategies)` loop
  retryI,         \* `i` of the retry strategy's loop
  sleeps,         \* history: the delays (ms) slept by the retry strategy
  retryLog,       \* history: outcome of each executeWorkflow call of the retry strategy
  retryEnd,       \* history: how the retry strategy ended: none / returned / threw
  attempts,       \* history: [name, result] of each strategy call made, in order
  recorded,       \* history: strategy names passed to updateModel, in order
  alternatePath,  \* what findAlternatePath returned (line 504): "unset", "none" or "route"
  returned        \* what autoRecover returned: "pending", "null" or the strategy whose value it is

recVars == <<context, rpc, strategyIdx, retryI, sleeps, retryLog, retryEnd,
             attempts, recorded, alternatePath, returned>>

VARIABLES
  hpc,            \* position of executeWithSelfHealing
  probability,    \* prediction.probability in tenths, -1 while there is none
  herror,         \* the `error` caught at line 430: which step threw it
  hresult,        \* what executeWithSelfHealing returned: "none", "result" or a strategy's value
  thrown,         \* the error executeWithSelfHealing threw to its caller, "none" if none
  prevented,      \* history: applyPreventiveMeasures was called
  executed        \* history: outcome of executeWithMonitoring: "no" (not called), "ok", "throw"

healVars == <<hpc, probability, herror, hresult, thrown, prevented, executed>>

VARIABLES
  scoreIn,        \* inputs of calculateBayesianPriority, scaled (see ScoreInputs)
  scored,         \* calculateBayesianPriority has returned
  scoreOut        \* its result, in thousandths

scoreVars == <<scoreIn, scored, scoreOut>>

VARIABLES
  runNo           \* number of the executeAsync call made on the DynamicTaskGraph object

VARIABLES
  epc,            \* position of startEvolutionCycle
  cycle,          \* number of the current iteration of its while (true) loop
  lastEnd,        \* how the previous iteration ended: "none", "complete" or "error"
  lastWait,       \* duration of the last sleep, in ms (0: none yet)
  thrownBy,       \* the step whose error the catch of line 74 holds, "none" if none
  nTasks,         \* tasks.length in executeEvolutionTasks
  tIdx,           \* index of its `for (const task of tasks)` loop
  tpc,            \* position inside the loop body
  testsPassed,    \* per task: result of runTests, "none" before
  branch,         \* git: the branch checked out, 0 for main, else the task of auto-evolution/<id>
  branches,       \* git: the tasks whose branch exists
  dirty,          \* git: the tasks whose changes are in the working tree, uncommitted
  commits,        \* git: the commits made, with the changes each holds
  validated,      \* what validateEvolutions returned in this iteration, "none" before
  dpc,            \* position of progressiveDeployment
  deployLog       \* what progressiveDeployment did in this iteration

evoVars == <<epc, cycle, lastEnd, lastWait, thrownBy, nTasks, tIdx, tpc, testsPassed,
             branch, branches, dirty, commits, validated, dpc, deployLog>>

vars == <<schedVars, recVars, healVars, scoreVars, runNo, evoVars>>

\* What the steps of executeAsync leave alone.
outsideSched == <<recVars, healVars, scoreVars, runNo, evoVars>>

\* What the steps of autoRecover leave alone.
outsideRec == <<schedVars, healVars, scoreVars, runNo, evoVars>>

\* What the steps of startEvolutionCycle leave alone.
outsideEvo == <<schedVars, recVars, healVars, scoreVars, runNo>>

(* ------------------------------ helpers ------------------------------- *)

\* interface TaskNode { id; agent; dependencies; priority; estimatedDuration }
TaskNode == [id : Ids, dependencies : SUBSET Ids, priority : Priorities]

Range(s) == {s[i] : i \in DOMAIN s}

\* Map.set: a new key is appended, an existing key keeps its place and gets
\* the new value.
MapSet(m, node) ==
  IF \E i \in DOMAIN m : m[i].id = node.id
    THEN [i \in DOMAIN m |-> IF m[i].id = node.id THEN node ELSE m[i]]
    ELSE Append(m, node)

\* workflow.forEach(node => this.nodes.set(node.id, node))
RECURSIVE SetAll(_, _)
SetAll(m, w) == IF w = <<>> THEN m ELSE SetAll(MapSet(m, Head(w)), Tail(w))

\* .sort((a, b) => b.priority - a.priority): stable, descending priority.
RECURSIVE SortFrom(_, _)
SortFrom(s, p) ==
  IF p < 1 THEN <<>>
  ELSE SelectSeq(s, LAMBDA n : n.priority = p) \o SortFrom(s, p - 1)

SortByPriority(s) == SortFrom(s, MaxPriority)

\* node.dependencies.every(dep => this.executionPool.has(dep))
DepsStarted(node, pool) == node.dependencies \subseteq pool

\* getReadyTasks(): every node whose dependencies all have an entry in
\* executionPool, sorted by descending priority.
getReadyTasks(m, pool) ==
  SortByPriority(SelectSeq(m, LAMBDA n : DepsStarted(n, pool)))

\* A promise returned by executeTask.
Promise(node, st) == [task |-> node.id, st |-> st]

Settled(p) == p.st # "pending"

\* Promise.race(executing) at the moment of the call: the first already
\* settled promise, in array order, decides; otherwise the race is open.
RaceAtCall(ex) ==
  IF \E i \in DOMAIN ex : Settled(ex[i])
    THEN ex[CHOOSE i \in DOMAIN ex :
              Settled(ex[i]) /\ \A j \in 1..(i - 1) : ~Settled(ex[j])].st
    ELSE "none"

\* executing.indexOf(completed): `completed` is the value the race resolved
\* with, never one of the promise objects held by the array, so -1.
IndexOfCompleted(ex) == -1

\* executing.splice(index, 1): a negative index counts from the end.
SpliceAt(ex, index) ==
  LET k == IF index < 0 THEN (IF Len(ex) + index < 0 THEN 0 ELSE Len(ex) + index)
                        ELSE (IF index > Len(ex) THEN Len(ex) ELSE index)
  IN  \* k is the 0-based start; one element is removed if there is one
      IF k >= Len(ex) THEN ex
      ELSE SubSeq(ex, 1, k) \o SubSeq(ex, k + 2, Len(ex))

Removed(ex, index) ==
  LET k == IF index < 0 THEN (IF Len(ex) + index < 0 THEN 0 ELSE Len(ex) + index)
                        ELSE (IF index > Len(ex) THEN Len(ex) ELSE index)
  IN  IF k >= Len(ex) THEN <<>> ELSE <<ex[k + 1]>>

DetachedTotal(d) ==
  LET RECURSIVE Sum(_)
      Sum(S) == IF S = {} THEN 0
                ELSE LET x == CHOOSE y \in S : TRUE IN d[x] + Sum(S \ {x})
  IN Sum(Ids)

Bump(c) == IF c < MaxCount THEN c + 1 ELSE c

(* ------------------------------- Init --------------------------------- *)

\* Workflows handed to executeAsync: up to MaxNodes nodes with ids 1..n.
Workflows ==
  UNION {{w \in [1..n -> TaskNode] : \A i \in 1..n : w[i].id = i} : n \in 0..MaxNodes}

\* A fresh DynamicTaskGraph (lines 321-323) on which executeAsync has not run.
SchedIdle ==
  /\ nodes = <<>>
  /\ executionPool = {}
  /\ ready = <<>>
  /\ executing = <<>>
  /\ detached = [n \in Ids |-> 0]
  /\ pc = "idle"
  /\ raceResult = "none"
  /\ completed = {}
  /\ failed = {}
  /\ dispatched = [n \in Ids |-> 0]

\* A SelfHealingOrchestrator on which autoRecover has not been called.
RecIdle ==
  /\ rpc = "idle"
  /\ strategyIdx = 0
  /\ retryI = 0
  /\ sleeps = <<>>
  /\ retryLog = <<>>
  /\ retryEnd = "none"
  /\ attempts = <<>>
  /\ recorded = <<>>
  /\ alternatePath = "unset"
  /\ returned = "pending"

\* executeWithSelfHealing has not been called.
HealIdle ==
  /\ hpc = "start"
  /\ probability = -1
  /\ herror = "none"
  /\ hresult = "none"
  /\ thrown = "none"
  /\ prevented = FALSE
  /\ executed = "no"

\* calculateBayesianPriority has not been called.
ScoreIdle ==
  /\ scoreIn = [h |-> 0, p |-> 0, r |-> 0]
  /\ scored = FALSE
  /\ scoreOut = 0

\* Tasks are numbered through the iterations: task k of iteration c.
TaskIds == 1..(MaxCycles * MaxTasks)

TaskId(c, k) == ((c - 1) * MaxTasks) + k

\* startEvolutionCycle has not been called; the repository is clean, on main.
EvoIdle ==
  /\ epc = "idle"
  /\ cycle = 0
  /\ lastEnd = "none"
  /\ lastWait = 0
  /\ thrownBy = "none"
  /\ nTasks = 0
  /\ tIdx = 0
  /\ tpc = "none"
  /\ testsPassed = [t \in TaskIds |-> "none"]
  /\ branch = 0
  /\ branches = {}
  /\ dirty = {}
  /\ commits = {}
  /\ validated = "none"
  /\ dpc = "none"
  /\ deployLog = <<>>

Init ==
  /\ workflow \in Workflows
  /\ SchedIdle
  /\ context = [checkpoints |-> 0, currentStep |-> 0]
  /\ RecIdle
  /\ HealIdle
  /\ ScoreIdle
  /\ runNo = 1
  /\ EvoIdle

(* --------------------------- executeAsync ----------------------------- *)

\* Lines 325-331: build the graph, take the first ready list.
ExecuteAsync ==
  /\ pc = "idle"
  /\ nodes' = SetAll(nodes, workflow)
  /\ ready' = [i \in DOMAIN getReadyTasks(nodes', executionPool) |->
                 getReadyTasks(nodes', executionPool)[i].id]
  /\ executing' = <<>>
  /\ pc' = "while"
  /\ UNCHANGED <<workflow, executionPool, detached, raceResult, completed, failed, dispatched>>
  /\ UNCHANGED outsideSched

NodeOf(m, id) == m[CHOOSE i \in DOMAIN m : m[i].id = id]

\* Lines 335-340: one iteration of the launch loop; executeTask starts the
\* agent run and returns its pending promise.
Launch ==
  /\ pc = "while"
  /\ Len(ready) > 0 /\ Len(executing) < maxConcurrency
  /\ LET task == NodeOf(nodes, Head(ready)) IN
       /\ ready' = Tail(ready)
       /\ executing' = Append(executing, Promise(task, "pending"))
       /\ executionPool' = executionPool \cup {task.id}
       /\ dispatched' = [dispatched EXCEPT ![task.id] = Bump(@)]
  /\ UNCHANGED <<workflow, nodes, detached, pc, raceResult, completed, failed>>
  /\ UNCHANGED outsideSched

\* Line 343: the launch loop is left and Promise.race(executing) is awaited.
AwaitRace ==
  /\ pc = "while"
  /\ ~(Len(ready) > 0 /\ Len(executing) < maxConcurrency)
  /\ Len(ready) > 0 \/ Len(executing) > 0
  /\ pc' = "race"
  /\ raceResult' = RaceAtCall(executing)
  /\ UNCHANGED <<workflow, nodes, executionPool, ready, executing, detached,
                 completed, failed, dispatched>>
  /\ UNCHANGED outsideSched

\* Line 333: the outer loop's condition is false; executeAsync returns.
Return ==
  /\ pc = "while"
  /\ ~(Len(ready) > 0 \/ Len(executing) > 0)
  /\ pc' = "done"
  /\ UNCHANGED <<workflow, nodes, executionPool, ready, executing, detached,
                 raceResult, completed, failed, dispatched>>
  /\ UNCHANGED outsideSched

\* agentExecutor.run settles for a promise still held by `executing`.
Finish(i, outcome) ==
  /\ pc \in {"race", "done", "threw"}
  /\ i \in DOMAIN executing
  /\ executing[i].st = "pending"
  /\ executing' = [executing EXCEPT ![i].st = outcome]
  /\ completed' = IF outcome = "ok" THEN completed \cup {executing[i].task}
                  ELSE completed
  /\ failed' = IF outcome = "err" THEN failed \cup {executing[i].task} ELSE failed
  /\ raceResult' = IF pc = "race" /\ raceResult = "none" THEN outcome
                   ELSE raceResult
  /\ UNCHANGED <<workflow, nodes, executionPool, ready, detached, pc, dispatched>>
  /\ UNCHANGED outsideSched

\* agentExecutor.run settles for a promise that was spliced out while pending.
FinishDetached(n, outcome) ==
  /\ pc \in {"race", "done", "threw"}
  /\ detached[n] > 0
  /\ detached' = [detached EXCEPT ![n] = @ - 1]
  /\ completed' = IF outcome = "ok" THEN completed \cup {n} ELSE completed
  /\ failed' = IF outcome = "err" THEN failed \cup {n} ELSE failed
  /\ UNCHANGED <<workflow, nodes, executionPool, ready, executing, pc,
                 raceResult, dispatched>>
  /\ UNCHANGED outsideSched

\* Variant of Resume in which the rejection of the race is caught and the
\* loop goes on: the next round starts from the thrown state as well.
ResumeAfterThrow ==
  /\ \/ pc = "race" /\ raceResult = "ok"
     \/ pc = "threw"
  /\ LET index == IndexOfCompleted(executing)
         gone  == Removed(executing, index)
         more  == getReadyTasks(nodes, executionPool)
     IN
       /\ executing' = SpliceAt(executing, index)
       /\ detached' = IF gone # <<>> /\ gone[1].st = "pending"
                        THEN [detached EXCEPT ![gone[1].task] = @ + 1]
                        ELSE detached
       /\ DetachedTotal(detached') <= MaxDetached
       /\ ready' = ready \o [i \in DOMAIN more |-> more[i].id]
       /\ Len(ready') <= MaxReady
  /\ pc' = "while"
  /\ raceResult' = "none"
  /\ UNCHANGED <<workflow, nodes, executionPool, completed, failed, dispatched>>
  /\ UNCHANGED outsideSched

\* Variant of Resume that does not recompute readiness after a completion
\* (line 347 missing).
ResumeNoRefill ==
  /\ pc = "race"
  /\ raceResult = "ok"
  /\ LET index == IndexOfCompleted(executing)
         gone  == Removed(executing, index)
         more  == getReadyTasks(nodes, executionPool)
     IN
       /\ executing' = SpliceAt(executing, index)
       /\ detached' = IF gone # <<>> /\ gone[1].st = "pending"
                        THEN [detached EXCEPT ![gone[1].task] = @ + 1]
                        ELSE detached
       /\ DetachedTotal(detached') <= MaxDetached
       /\ ready' = ready
       /\ Len(ready') <= MaxReady
  /\ pc' = "while"
  /\ raceResult' = "none"
  /\ UNCHANGED <<workflow, nodes, executionPool, completed, failed, dispatched>>
  /\ UNCHANGED outsideSched

\* Variant of Resume whose readiness query puts the nodes it returns on
\* record as started.
ResumeQueryMarks ==
  /\ pc = "race"
  /\ raceResult = "ok"
  /\ LET index == IndexOfCompleted(executing)
         gone  == Removed(executing, index)
         more  == getReadyTasks(nodes, executionPool)
     IN
       /\ executing' = SpliceAt(executing, index)
       /\ detached' = IF gone # <<>> /\ gone[1].st = "pending"
                        THEN [detached EXCEPT ![gone[1].task] = @ + 1]
                        ELSE detached
       /\ DetachedTotal(detached') <= MaxDetached
       /\ ready' = ready \o [i \in DOMAIN more |-> more[i].id]
       /\ Len(ready') <= MaxReady
  /\ pc' = "while"
  /\ raceResult' = "none"
  /\ executionPool' = executionPool \cup
       {getReadyTasks(nodes, executionPool)[i].id :
          i \in DOMAIN getReadyTasks(nodes, executionPool)}
  /\ UNCHANGED <<workflow, nodes, completed, failed, dispatched>>
  /\ UNCHANGED outsideSched

\* Lines 343-348: the race fulfilled; splice and refill `ready`.
Resume ==
  /\ pc = "race"
  /\ raceResult = "ok"
  /\ LET index == IndexOfCompleted(executing)
         gone  == Removed(executing, index)
         more  == getReadyTasks(nodes, executionPool)
     IN
       /\ executing' = SpliceAt(executing, index)
       /\ detached' = IF gone # <<>> /\ gone[1].st = "pending"
                        THEN [detached EXCEPT ![gone[1].task] = @ + 1]
                        ELSE detached
       /\ DetachedTotal(detached') <= MaxDetached
       /\ ready' = ready \o [i \in DOMAIN more |-> more[i].id]
       /\ Len(ready') <= MaxReady
  /\ pc' = "while"
  /\ raceResult' = "none"
  /\ UNCHANGED <<workflow, nodes, executionPool, completed, failed, dispatched>>
  /\ UNCHANGED outsideSched

\* Line 343: the race rejected; the await throws out of executeAsync.
Throw ==
  /\ pc = "race"
  /\ raceResult = "err"
  /\ pc' = "threw"
  /\ raceResult' = "none"
  /\ UNCHANGED <<workflow, nodes, executionPool, ready, executing, detached,
                 completed, failed, dispatched>>
  /\ UNCHANGED outsideSched

Next ==
  \/ ExecuteAsync
  \/ Launch
  \/ AwaitRace
  \/ Return
  \/ \E i \in 1..maxConcurrency, o \in {"ok", "err"} : Finish(i, o)
  \/ \E n \in Ids, o \in {"ok", "err"} : FinishDetached(n, o)
  \/ Resume
  \/ Throw

Spec == Init /\ [][Next]_vars

(* ------------------------ SelfHealingOrchestrator --------------------- *)

\* Lines 457-462: the strategies array literal; weights in tenths.
strategies ==
  << [name |-> "exponential_backoff_retry", weight |-> 4],
     [name |-> "checkpoint_rollback",       weight |-> 3],
     [name |-> "alternate_path_routing",    weight |-> 2],
     [name |-> "graceful_degradation",      weight |-> 1] >>

\* Line 485: const maxRetries = 5
maxRetries == 5

RECURSIVE Pow2(_)
Pow2(n) == IF n <= 0 THEN 1 ELSE 2 * Pow2(n - 1)

\* Mutation of Delay: the delay doubles the index instead of raising 2 to it.
DelayLinear(i) == 2 * i * 1000

\* Line 487: Math.pow(2, i) * 1000
Delay(i) == Pow2(i) * 1000

\* What a call of an external re-execution (executeWorkflow,
\* executeFromCheckpoint, executeAlternatePath, executeWithDegradedFeatures)
\* can do: return a truthy value, return a falsy value, or throw.
Outcomes == {"truthy", "falsy", "throw"}

\* prediction.probability, in tenths.
Probabilities == 0..10

\* Line 417: prediction.probability > 0.7, in tenths.
PreventThreshold == 7

\* Execution contexts autoRecover is called with.
Contexts == [checkpoints : 0..MaxCheckpoints, currentStep : 0..MaxStep]

\* autoRecover is private and called only from the catch of
\* executeWithSelfHealing (line 433): the state right after an error of
\* the workflow's execution was caught.
InitRecover ==
  /\ workflow = <<>>
  /\ SchedIdle
  /\ context \in Contexts
  /\ RecIdle
  /\ hpc = "catch"
  /\ probability \in Probabilities
  /\ herror = "execution"
  /\ hresult = "none"
  /\ thrown = "none"
  /\ prevented = FALSE
  /\ executed = "throw"
  /\ ScoreIdle
  /\ runNo = 1
  /\ EvoIdle

\* Line 456: autoRecover is called; the for loop starts at the first strategy.
AutoRecover ==
  /\ hpc = "catch"
  /\ rpc = "idle"
  /\ rpc' = "for"
  /\ strategyIdx' = 1
  /\ UNCHANGED <<context, retryI, sleeps, retryLog, retryEnd, attempts, recorded, returned>>
  /\ UNCHANGED alternatePath
  /\ UNCHANGED outsideRec

\* Lines 464-467, first strategy: the retry strategy is entered (i = 0).
CallRetry ==
  /\ rpc = "for"
  /\ strategyIdx <= Len(strategies)
  /\ strategies[strategyIdx].name = "exponential_backoff_retry"
  /\ rpc' = "retrySleep"
  /\ retryI' = 0
  /\ UNCHANGED <<context, strategyIdx, sleeps, retryLog, retryEnd, attempts, recorded, returned>>
  /\ UNCHANGED alternatePath
  /\ UNCHANGED outsideRec

\* Line 487: await this.sleep(Math.pow(2, i) * 1000)
RetrySleep ==
  /\ rpc = "retrySleep"
  /\ retryI < maxRetries
  /\ sleeps' = Append(sleeps, Delay(retryI))
  /\ rpc' = "retryExec"
  /\ UNCHANGED <<context, strategyIdx, retryI, retryLog, retryEnd, attempts, recorded, returned>>
  /\ UNCHANGED alternatePath
  /\ UNCHANGED outsideRec

\* Variant of RetryExec that retries after a falsy result as it does after
\* an error, giving the falsy result back only on the last attempt.
RetryExecUntilTruthy(o) ==
  /\ rpc = "retryExec"
  /\ retryLog' = Append(retryLog, o)
  /\ IF o = "truthy" \/ (o = "falsy" /\ retryI = maxRetries - 1)
       THEN /\ retryEnd' = "returned"
            /\ attempts' = Append(attempts, [name |-> strategies[strategyIdx].name, result |-> o])
            /\ rpc' = "if"
            /\ UNCHANGED retryI
       ELSE IF retryI = maxRetries - 1
         THEN /\ retryEnd' = "threw"
              /\ attempts' = Append(attempts, [name |-> strategies[strategyIdx].name, result |-> "throw"])
              /\ rpc' = "catch"
              /\ UNCHANGED retryI
         ELSE /\ retryI' = retryI + 1
              /\ rpc' = "retrySleep"
              /\ UNCHANGED <<retryEnd, attempts>>
  /\ UNCHANGED <<context, strategyIdx, sleeps, recorded, returned>>
  /\ UNCHANGED alternatePath
  /\ UNCHANGED outsideRec

\* Lines 488-492: return await this.executeWorkflow(workflow), or the catch.
RetryExec(o) ==
  /\ rpc = "retryExec"
  /\ retryLog' = Append(retryLog, o)
  /\ IF o # "throw"
       THEN \* line 489: the strategy returns the workflow's result
            /\ retryEnd' = "returned"
            /\ attempts' = Append(attempts, [name |-> strategies[strategyIdx].name, result |-> o])
            /\ rpc' = "if"
            /\ UNCHANGED retryI
       ELSE IF retryI = maxRetries - 1
         THEN \* line 491: throw e, caught at line 474
            /\ retryEnd' = "threw"
            /\ attempts' = Append(attempts, [name |-> strategies[strategyIdx].name, result |-> "throw"])
            /\ rpc' = "catch"
            /\ UNCHANGED retryI
         ELSE \* i++
            /\ retryI' = retryI + 1
            /\ rpc' = "retrySleep"
            /\ UNCHANGED <<retryEnd, attempts>>
  /\ UNCHANGED <<context, strategyIdx, sleeps, recorded, returned>>
  /\ UNCHANGED alternatePath
  /\ UNCHANGED outsideRec

\* Lines 464-467, the three other strategies: each is one call of an
\* external re-execution (lines 497-511).
CallStrategy(o) ==
  /\ rpc = "for"
  /\ strategyIdx <= Len(strategies)
  /\ strategies[strategyIdx].name # "exponential_backoff_retry"
  /\ attempts' = Append(attempts, [name |-> strategies[strategyIdx].name, result |-> o])
  /\ rpc' = IF o = "throw" THEN "catch" ELSE "if"
  /\ alternatePath' \in
       IF strategies[strategyIdx].name = "alternate_path_routing"
         THEN {"none", "route"}   \* line 504: findAlternatePath finds a path or none
         ELSE {alternatePath}
  /\ UNCHANGED <<context, strategyIdx, retryI, sleeps, retryLog, retryEnd, recorded, returned>>
  /\ UNCHANGED outsideRec

Last(s) == s[Len(s)]

\* Line 469, recovered truthy: await this.updateModel(context, true, strategy.name)
\* resolves, and line 472 returns the strategy's value.
UpdateModelReturn ==
  /\ rpc = "if"
  /\ Last(attempts).result = "truthy"
  /\ recorded' = Append(recorded, strategies[strategyIdx].name)
  /\ returned' = strategies[strategyIdx].name
  /\ rpc' = "returned"
  /\ UNCHANGED <<context, strategyIdx, retryI, sleeps, retryLog, retryEnd, attempts>>
  /\ UNCHANGED alternatePath
  /\ UNCHANGED outsideRec

\* Line 471 throws: updateModel is awaited inside the try block, so its
\* error lands in the catch of line 474.
UpdateModelThrow ==
  /\ rpc = "if"
  /\ Last(attempts).result = "truthy"
  /\ rpc' = "catch"
  /\ UNCHANGED <<context, strategyIdx, retryI, sleeps, retryLog, retryEnd, attempts,
                 recorded, returned>>
  /\ UNCHANGED alternatePath
  /\ UNCHANGED outsideRec

\* Line 469, recovered falsy: the if is skipped, next iteration.
NotRecovered ==
  /\ rpc = "if"
  /\ Last(attempts).result = "falsy"
  /\ strategyIdx' = strategyIdx + 1
  /\ rpc' = "for"
  /\ UNCHANGED <<context, retryI, sleeps, retryLog, retryEnd, attempts, recorded, returned>>
  /\ UNCHANGED alternatePath
  /\ UNCHANGED outsideRec

\* Variant of Catch that gives up at the first strategy that throws:
\* the loop ends and null is returned.
CatchReturns ==
  /\ rpc = "catch"
  /\ returned' = "null"
  /\ rpc' = "returned"
  /\ UNCHANGED <<context, strategyIdx, retryI, sleeps, retryLog, retryEnd, attempts, recorded>>
  /\ UNCHANGED alternatePath
  /\ UNCHANGED outsideRec

\* Variant of Catch in which the failed strategy has consumed the last
\* checkpoint of the context.
CatchDropsCheckpoint ==
  /\ rpc = "catch"
  /\ strategyIdx' = strategyIdx + 1
  /\ rpc' = "for"
  /\ context' = [context EXCEPT !.checkpoints = IF @ > 0 THEN @ - 1 ELSE @]
  /\ UNCHANGED <<retryI, sleeps, retryLog, retryEnd, attempts, recorded, returned>>
  /\ UNCHANGED alternatePath
  /\ UNCHANGED outsideRec

\* Lines 474-476: the catch logs and the loop goes on.
Catch ==
  /\ rpc = "catch"
  /\ strategyIdx' = strategyIdx + 1
  /\ rpc' = "for"
  /\ UNCHANGED <<context, retryI, sleeps, retryLog, retryEnd, attempts, recorded, returned>>
  /\ UNCHANGED alternatePath
  /\ UNCHANGED outsideRec

\* Line 479: the loop is exhausted; return null.
ReturnNull ==
  /\ rpc = "for"
  /\ strategyIdx > Len(strategies)
  /\ returned' = "null"
  /\ rpc' = "returned"
  /\ UNCHANGED <<context, strategyIdx, retryI, sleeps, retryLog, retryEnd, attempts, recorded>>
  /\ UNCHANGED alternatePath
  /\ UNCHANGED outsideRec

NextRecover ==
  \/ AutoRecover
  \/ CallRetry
  \/ RetrySleep
  \/ \E o \in Outcomes : RetryExec(o)
  \/ \E o \in Outcomes : CallStrategy(o)
  \/ UpdateModelReturn
  \/ UpdateModelThrow
  \/ NotRecovered
  \/ Catch
  \/ ReturnNull

SpecRecover == InitRecover /\ [][NextRecover]_vars

(* ----------------------- executeWithSelfHealing ----------------------- *)

\* executeWithSelfHealing is called (line 410) with a fresh context.
InitHeal ==
  /\ workflow = <<>>
  /\ SchedIdle
  /\ context \in Contexts
  /\ RecIdle
  /\ HealIdle
  /\ ScoreIdle
  /\ runNo = 1
  /\ EvoIdle

\* Variant of PredictFailures whose comparison with the threshold is not
\* strict.
PredictFailuresAtLeast(prob) ==
  /\ hpc = "start"
  /\ probability' = prob
  /\ hpc' = IF prob >= PreventThreshold THEN "prevent" ELSE "execute"
  /\ UNCHANGED <<herror, hresult, thrown, prevented, executed>>
  /\ UNCHANGED <<schedVars, recVars, scoreVars, runNo, evoVars>>

\* Line 415: await this.predictFailures(executionContext) returns a
\* prediction; line 417 compares its probability with 0.7.
PredictFailures(prob) ==
  /\ hpc = "start"
  /\ probability' = prob
  /\ hpc' = IF prob > PreventThreshold THEN "prevent" ELSE "execute"
  /\ UNCHANGED <<herror, hresult, thrown, prevented, executed>>
  /\ UNCHANGED <<schedVars, recVars, scoreVars, runNo, evoVars>>

\* Line 415 throws (the model cannot be evaluated): the call is inside the
\* try block, so the error is caught at line 430.
PredictFailuresThrow ==
  /\ hpc = "start"
  /\ hpc' = "catch"
  /\ herror' = "predictor"
  /\ UNCHANGED <<probability, hresult, thrown, prevented, executed>>
  /\ UNCHANGED <<schedVars, recVars, scoreVars, runNo, evoVars>>

\* Line 419: await this.applyPreventiveMeasures(prediction)
ApplyPreventiveMeasures(o) ==
  /\ hpc = "prevent"
  /\ prevented' = TRUE
  /\ hpc' = IF o = "ok" THEN "execute" ELSE "catch"
  /\ herror' = IF o = "ok" THEN herror ELSE "preventive"
  /\ UNCHANGED <<probability, hresult, thrown, executed>>
  /\ UNCHANGED <<schedVars, recVars, scoreVars, runNo, evoVars>>

\* Line 423: await this.executeWithMonitoring(workflow, executionContext)
ExecuteWithMonitoring(o) ==
  /\ hpc = "execute"
  /\ executed' = o
  /\ hpc' = IF o = "ok" THEN "update" ELSE "catch"
  /\ herror' = IF o = "ok" THEN herror ELSE "execution"
  /\ UNCHANGED <<probability, hresult, thrown, prevented>>
  /\ UNCHANGED <<schedVars, recVars, scoreVars, runNo, evoVars>>

\* Lines 426-428: await this.updateModel(executionContext, true), then
\* return result; an error of updateModel is caught at line 430 too.
UpdateModelAfterSuccess(o) ==
  /\ hpc = "update"
  /\ hpc' = IF o = "ok" THEN "returned" ELSE "catch"
  /\ hresult' = IF o = "ok" THEN "result" ELSE hresult
  /\ herror' = IF o = "ok" THEN herror ELSE "updateModel"
  /\ UNCHANGED <<probability, thrown, prevented, executed>>
  /\ UNCHANGED <<schedVars, recVars, scoreVars, runNo, evoVars>>

\* Mutation of HealRethrow: the `if (!recovered) throw error` is missing
\* and the falsy value is returned.
HealRethrowMissing ==
  /\ hpc = "catch"
  /\ rpc = "returned"
  /\ returned = "null"
  /\ hpc' = "returned"
  /\ hresult' = returned
  /\ UNCHANGED <<probability, herror, thrown, prevented, executed>>
  /\ UNCHANGED <<schedVars, recVars, scoreVars, runNo, evoVars>>

\* Lines 435-437: autoRecover returned a falsy value; throw error.
HealRethrow ==
  /\ hpc = "catch"
  /\ rpc = "returned"
  /\ returned = "null"
  /\ hpc' = "threw"
  /\ thrown' = herror
  /\ UNCHANGED <<probability, herror, hresult, prevented, executed>>
  /\ UNCHANGED <<schedVars, recVars, scoreVars, runNo, evoVars>>

\* Line 439: return recovered.
HealReturnRecovered ==
  /\ hpc = "catch"
  /\ rpc = "returned"
  /\ returned # "null"
  /\ hpc' = "returned"
  /\ hresult' = returned
  /\ UNCHANGED <<probability, herror, thrown, prevented, executed>>
  /\ UNCHANGED <<schedVars, recVars, scoreVars, runNo, evoVars>>

NextHeal ==
  \/ \E prob \in Probabilities : PredictFailures(prob)
  \/ PredictFailuresThrow
  \/ \E o \in {"ok", "throw"} : ApplyPreventiveMeasures(o)
  \/ \E o \in {"ok", "throw"} : ExecuteWithMonitoring(o)
  \/ \E o \in {"ok", "throw"} : UpdateModelAfterSuccess(o)
  \/ AutoRecover
  \/ CallRetry
  \/ RetrySleep
  \/ \E o \in Outcomes : RetryExec(o)
  \/ \E o \in Outcomes : CallStrategy(o)
  \/ UpdateModelReturn
  \/ UpdateModelThrow
  \/ NotRecovered
  \/ Catch
  \/ ReturnNull
  \/ HealRethrow
  \/ HealReturnRecovered

SpecHeal == InitHeal /\ [][NextHeal]_vars



(* ------------------ successive calls of executeAsync ------------------ *)

\* Workflows whose nodes may share an id.
RunNodes ==
  {n \in TaskNode : /\ n.id <= MaxRunNodes
                    /\ n.dependencies \subseteq 1..MaxRunNodes
                    /\ Cardinality(n.dependencies) <= MaxRunDeps
                    /\ n.priority = MaxPriority}

RunWorkflows == UNION {[1..n -> RunNodes] : n \in 0..MaxRunNodes}

InitRuns ==
  /\ workflow \in RunWorkflows
  /\ SchedIdle
  /\ context = [checkpoints |-> 0, currentStep |-> 0]
  /\ RecIdle
  /\ HealIdle
  /\ ScoreIdle
  /\ runNo = 1
  /\ EvoIdle

\* executeAsync is called again on the same DynamicTaskGraph after the
\* previous call has returned or thrown. The fields nodes and executionPool
\* (lines 321-322) are kept; the locals of the previous call are gone, and
\* what its promises do later changes no field. The history variables are
\* per call and start afresh.
NextCall(w) ==
  /\ pc \in {"done", "threw"}
  /\ runNo < MaxRuns
  /\ runNo' = runNo + 1
  /\ workflow' = w
  /\ pc' = "idle"
  /\ ready' = <<>>
  /\ executing' = <<>>
  /\ detached' = [n \in Ids |-> 0]
  /\ raceResult' = "none"
  /\ completed' = {}
  /\ failed' = {}
  /\ dispatched' = [n \in Ids |-> 0]
  /\ UNCHANGED <<nodes, executionPool>>
  /\ UNCHANGED <<recVars, healVars, scoreVars, evoVars>>

NextRuns ==
  \/ ExecuteAsync
  \/ Launch
  \/ AwaitRace
  \/ Return
  \/ \E i \in 1..maxConcurrency, o \in {"ok", "err"} : Finish(i, o)
  \/ \E n \in Ids, o \in {"ok", "err"} : FinishDetached(n, o)
  \/ Resume
  \/ Throw
  \/ \E w \in RunWorkflows : NextCall(w)

SpecRuns == InitRuns /\ [][NextRuns]_vars

(* ------------------------ startEvolutionCycle ------------------------- *)

\* Line 40: benchmarkInterval = 3600000 (one hour)
benchmarkInterval == 3600000

\* Line 77: sleep(300000) after an error
errorWait == 300000

\* Lines 266, 271: sleep(300000) while a canary is monitored
monitorWait == 300000

\* Lines 621-624: canaryHealthy returns true.
canaryHealthy == TRUE

\* The task of the current iteration of the loop of executeEvolutionTasks.
Task == TaskId(cycle, tIdx)

\* startEvolutionCycle has been called and enters its loop; the repository
\* is clean, on main.
InitEvolve ==
  /\ workflow = <<>>
  /\ SchedIdle
  /\ context = [checkpoints |-> 0, currentStep |-> 0]
  /\ RecIdle
  /\ HealIdle
  /\ ScoreIdle
  /\ runNo = 1
  /\ epc = "benchmark"
  /\ cycle = 1
  /\ lastEnd = "none"
  /\ lastWait = 0
  /\ thrownBy = "none"
  /\ nTasks = 0
  /\ tIdx = 0
  /\ tpc = "none"
  /\ testsPassed = [t \in TaskIds |-> "none"]
  /\ branch = 0
  /\ branches = {}
  /\ dirty = {}
  /\ commits = {}
  /\ validated = "none"
  /\ dpc = "none"
  /\ deployLog = <<>>

\* Line 57: await this.benchmarkAgainstIndustry(); the request or the
\* JSON.parse of lines 119-126 can throw.
BenchmarkAgainstIndustry(o) ==
  /\ epc = "benchmark"
  /\ epc' = IF o = "ok" THEN "generate" ELSE "catch"
  /\ thrownBy' = IF o = "ok" THEN thrownBy ELSE "benchmark"
  /\ UNCHANGED <<cycle, lastEnd, lastWait, nTasks, tIdx, tpc, testsPassed,
                 branch, branches, dirty, commits, validated, dpc, deployLog>>
  /\ UNCHANGED outsideEvo

\* Line 60: await this.generateEvolutionTasks(benchmarks) returns n tasks,
\* or createEvolutionTask (line 139) throws.
GenerateEvolutionTasks(o, n) ==
  /\ epc = "generate"
  /\ epc' = IF o = "ok" THEN "tasks" ELSE "catch"
  /\ thrownBy' = IF o = "ok" THEN thrownBy ELSE "generation"
  /\ nTasks' = IF o = "ok" THEN n ELSE nTasks
  /\ tIdx' = IF o = "ok" THEN 1 ELSE tIdx
  /\ tpc' = IF o = "ok" /\ n > 0 THEN "createBranch" ELSE "none"
  /\ UNCHANGED <<cycle, lastEnd, lastWait, testsPassed, branch, branches,
                 dirty, commits, validated, dpc, deployLog>>
  /\ UNCHANGED outsideEvo

\* Lines 193-194: git checkout -b auto-evolution/<id>: the new branch starts
\* at HEAD and the working tree is kept. An error of execSync is caught at
\* line 210 and the loop goes on with the next task.
CreateBranch(o) ==
  /\ epc = "tasks"
  /\ tpc = "createBranch"
  /\ branches' = IF o = "ok" THEN branches \cup {Task} ELSE branches
  /\ branch' = IF o = "ok" THEN Task ELSE branch
  /\ tIdx' = IF o = "ok" THEN tIdx ELSE tIdx + 1
  /\ tpc' = IF o = "ok" THEN "applyChanges"
            ELSE IF tIdx + 1 <= nTasks THEN "createBranch" ELSE "none"
  /\ UNCHANGED <<epc, cycle, lastEnd, lastWait, thrownBy, nTasks,
                 testsPassed, dirty, commits, validated, dpc, deployLog>>
  /\ UNCHANGED outsideEvo

\* Line 197, lines 219-228: the files of the task are written; an error of
\* fs can come before any file was written ("throw") or after some were
\* ("partial"). It is caught at line 210.
ApplyChanges(o) ==
  /\ epc = "tasks"
  /\ tpc = "applyChanges"
  /\ dirty' = IF o = "throw" THEN dirty ELSE dirty \cup {Task}
  /\ tIdx' = IF o = "ok" THEN tIdx ELSE tIdx + 1
  /\ tpc' = IF o = "ok" THEN "runTests"
            ELSE IF tIdx + 1 <= nTasks THEN "createBranch" ELSE "none"
  /\ UNCHANGED <<epc, cycle, lastEnd, lastWait, thrownBy, nTasks,
                 testsPassed, branch, branches, commits, validated, dpc,
                 deployLog>>
  /\ UNCHANGED outsideEvo

\* Line 200, lines 592-599: npm test; runTests returns true or false and
\* never throws.
RunTests(passed) ==
  /\ epc = "tasks"
  /\ tpc = "runTests"
  /\ testsPassed' = [testsPassed EXCEPT ![Task] = IF passed THEN "pass" ELSE "fail"]
  /\ tpc' = "if"
  /\ UNCHANGED <<epc, cycle, lastEnd, lastWait, thrownBy, nTasks, tIdx,
                 branch, branches, dirty, commits, validated, dpc, deployLog>>
  /\ UNCHANGED outsideEvo

\* Lines 202-204, 586-590: git add ., git commit, git push. The commit holds
\* everything that is in the working tree. git commit or git push can fail;
\* the error is caught at line 210.
CommitChanges(o) ==
  /\ epc = "tasks"
  /\ tpc = "if"
  /\ testsPassed[Task] = "pass"
  /\ commits' = IF o = "throwCommit" THEN commits
                ELSE commits \cup {[task |-> Task, changes |-> dirty, pushed |-> (o = "ok")]}
  /\ dirty' = IF o = "throwCommit" THEN dirty ELSE {}
  /\ tIdx' = tIdx + 1
  /\ tpc' = IF tIdx + 1 <= nTasks THEN "createBranch" ELSE "none"
  /\ UNCHANGED <<epc, cycle, lastEnd, lastWait, thrownBy, nTasks,
                 testsPassed, branch, branches, validated, dpc, deployLog>>
  /\ UNCHANGED outsideEvo

\* Lines 205-207, 601-604: git checkout main, git branch -D <branch>. The
\* checkout takes the uncommitted changes of the working tree along. A
\* failing checkout is caught at line 210 and leaves the branch.
RollbackBranch(o) ==
  /\ epc = "tasks"
  /\ tpc = "if"
  /\ testsPassed[Task] = "fail"
  /\ branch' = IF o = "ok" THEN 0 ELSE branch
  /\ branches' = IF o = "ok" THEN branches \ {Task} ELSE branches
  /\ tIdx' = tIdx + 1
  /\ tpc' = IF tIdx + 1 <= nTasks THEN "createBranch" ELSE "none"
  /\ UNCHANGED <<epc, cycle, lastEnd, lastWait, thrownBy, nTasks,
                 testsPassed, dirty, commits, validated, dpc, deployLog>>
  /\ UNCHANGED outsideEvo

\* Line 63: executeEvolutionTasks returns when its loop is over; it never
\* throws.
TasksDone ==
  /\ epc = "tasks"
  /\ tIdx > nTasks
  /\ epc' = "validate"
  /\ UNCHANGED <<cycle, lastEnd, lastWait, thrownBy, nTasks, tIdx, tpc,
                 testsPassed, branch, branches, dirty, commits, validated,
                 dpc, deployLog>>
  /\ UNCHANGED outsideEvo

\* Line 66: await this.validateEvolutions(); the boolean it returns
\* (lines 233-256, false on any error) is not used, and line 69 follows.
ValidateEvolutions(r) ==
  /\ epc = "validate"
  /\ validated' = IF r THEN "true" ELSE "false"
  /\ epc' = "deploy"
  /\ dpc' = "canary1"
  /\ UNCHANGED <<cycle, lastEnd, lastWait, thrownBy, nTasks, tIdx, tpc,
                 testsPassed, branch, branches, dirty, commits, deployLog>>
  /\ UNCHANGED outsideEvo

\* Lines 265 and 270: await this.deployCanary(0.01) / (0.10); the method
\* (lines 616-619) only logs.
DeployCanary(p) ==
  /\ epc = "deploy"
  /\ dpc = (IF p = 1 THEN "canary1" ELSE "canary10")
  /\ deployLog' = Append(deployLog, IF p = 1 THEN "canary1" ELSE "canary10")
  /\ dpc' = IF p = 1 THEN "sleep1" ELSE "sleep10"
  /\ UNCHANGED <<epc, cycle, lastEnd, lastWait, thrownBy, nTasks, tIdx, tpc,
                 testsPassed, branch, branches, dirty, commits, validated>>
  /\ UNCHANGED outsideEvo

\* Lines 266 and 271: await this.sleep(300000)
MonitorSleep ==
  /\ epc = "deploy"
  /\ dpc \in {"sleep1", "sleep10"}
  /\ lastWait' = monitorWait
  /\ dpc' = IF dpc = "sleep1" THEN "check1" ELSE "check10"
  /\ UNCHANGED <<epc, cycle, lastEnd, thrownBy, nTasks, tIdx, tpc,
                 testsPassed, branch, branches, dirty, commits, validated,
                 deployLog>>
  /\ UNCHANGED outsideEvo

\* Variant of CanaryHealthy that deploys to production as soon as the first
\* canary is healthy, without the 10% stage.
CanaryHealthySkipsSecond ==
  /\ epc = "deploy"
  /\ dpc \in {"check1", "check10"}
  /\ deployLog' = Append(deployLog, IF dpc = "check1" THEN "healthy1" ELSE "healthy10")
  /\ dpc' = "production"
  /\ UNCHANGED <<epc, cycle, lastEnd, lastWait, thrownBy, nTasks, tIdx, tpc,
                 testsPassed, branch, branches, dirty, commits, validated>>
  /\ UNCHANGED outsideEvo

\* Lines 268 and 273: if (await this.canaryHealthy()); for the first canary
\* the else of line 278 calls rollback (git reset --hard HEAD, which keeps
\* untracked files and can throw), for the second there is no else.
CanaryHealthy ==
  /\ epc = "deploy"
  /\ dpc \in {"check1", "check10"}
  /\ IF canaryHealthy
       THEN /\ deployLog' = Append(deployLog, IF dpc = "check1" THEN "healthy1" ELSE "healthy10")
            /\ dpc' = IF dpc = "check1" THEN "canary10" ELSE "production"
            /\ UNCHANGED <<epc, thrownBy, dirty>>
       ELSE IF dpc = "check1"
         THEN /\ deployLog' = deployLog \o <<"unhealthy1", "rollback">>
              /\ \/ /\ dirty' \in SUBSET dirty
                    /\ dpc' = "done"
                    /\ UNCHANGED <<epc, thrownBy>>
                 \/ /\ epc' = "catch"
                    /\ thrownBy' = "deployment"
                    /\ dpc' = "none"
                    /\ UNCHANGED dirty
         ELSE /\ deployLog' = Append(deployLog, "unhealthy10")
              /\ dpc' = "done"
              /\ UNCHANGED <<epc, thrownBy, dirty>>
  /\ UNCHANGED <<cycle, lastEnd, lastWait, nTasks, tIdx, tpc, testsPassed,
                 branch, branches, commits, validated>>
  /\ UNCHANGED outsideEvo

\* Line 275, lines 626-629: npm run deploy:prod, which can fail.
DeployProduction(o) ==
  /\ epc = "deploy"
  /\ dpc = "production"
  /\ deployLog' = IF o = "ok" THEN Append(deployLog, "production") ELSE deployLog
  /\ dpc' = IF o = "ok" THEN "done" ELSE "none"
  /\ epc' = IF o = "ok" THEN epc ELSE "catch"
  /\ thrownBy' = IF o = "ok" THEN thrownBy ELSE "deployment"
  /\ UNCHANGED <<cycle, lastEnd, lastWait, nTasks, tIdx, tpc, testsPassed,
                 branch, branches, dirty, commits, validated>>
  /\ UNCHANGED outsideEvo

\* Line 69 returns: progressiveDeployment is over.
DeploymentDone ==
  /\ epc = "deploy"
  /\ dpc = "done"
  /\ epc' = "sleep"
  /\ dpc' = "none"
  /\ UNCHANGED <<cycle, lastEnd, lastWait, thrownBy, nTasks, tIdx, tpc,
                 testsPassed, branch, branches, dirty, commits, validated,
                 deployLog>>
  /\ UNCHANGED outsideEvo

\* Lines 71-72: await this.sleep(this.benchmarkInterval), then the next
\* iteration of while (true).
CycleSleep ==
  /\ epc = "sleep"
  /\ cycle < MaxCycles
  /\ lastEnd' = "complete"
  /\ lastWait' = benchmarkInterval
  /\ cycle' = cycle + 1
  /\ epc' = "benchmark"
  /\ thrownBy' = "none"
  /\ nTasks' = 0
  /\ tIdx' = 0
  /\ tpc' = "none"
  /\ validated' = "none"
  /\ dpc' = "none"
  /\ deployLog' = <<>>
  /\ UNCHANGED <<testsPassed, branch, branches, dirty, commits>>
  /\ UNCHANGED outsideEvo

\* Lines 74-76: the catch calls rollback (git reset --hard HEAD: changes to
\* tracked files are undone, untracked files stay). rollback is not inside
\* a try: when execSync throws, startEvolutionCycle rejects.
CatchRollback(o) ==
  /\ epc = "catch"
  /\ epc' = IF o = "ok" THEN "errorSleep" ELSE "rejected"
  /\ dirty' \in (IF o = "ok" THEN SUBSET dirty ELSE {dirty})
  /\ UNCHANGED <<cycle, lastEnd, lastWait, thrownBy, nTasks, tIdx, tpc,
                 testsPassed, branch, branches, commits, validated, dpc,
                 deployLog>>
  /\ UNCHANGED outsideEvo

\* Line 77: await this.sleep(300000), then the next iteration.
ErrorSleep ==
  /\ epc = "errorSleep"
  /\ cycle < MaxCycles
  /\ lastEnd' = "error"
  /\ lastWait' = errorWait
  /\ cycle' = cycle + 1
  /\ epc' = "benchmark"
  /\ thrownBy' = "none"
  /\ nTasks' = 0
  /\ tIdx' = 0
  /\ tpc' = "none"
  /\ validated' = "none"
  /\ dpc' = "none"
  /\ deployLog' = <<>>
  /\ UNCHANGED <<testsPassed, branch, branches, dirty, commits>>
  /\ UNCHANGED outsideEvo

NextEvolve ==
  \/ \E o \in {"ok", "throw"} : BenchmarkAgainstIndustry(o)
  \/ \E o \in {"ok", "throw"}, n \in 0..MaxTasks : GenerateEvolutionTasks(o, n)
  \/ \E o \in {"ok", "throw"} : CreateBranch(o)
  \/ \E o \in {"ok", "throw", "partial"} : ApplyChanges(o)
  \/ \E passed \in BOOLEAN : RunTests(passed)
  \/ \E o \in {"ok", "throwCommit", "throwPush"} : CommitChanges(o)
  \/ \E o \in {"ok", "throw"} : RollbackBranch(o)
  \/ TasksDone
  \/ \E r \in BOOLEAN : ValidateEvolutions(r)
  \/ \E p \in {1, 10} : DeployCanary(p)
  \/ MonitorSleep
  \/ CanaryHealthy
  \/ \E o \in {"ok", "throw"} : DeployProduction(o)
  \/ DeploymentDone
  \/ CycleSleep
  \/ \E o \in {"ok", "throw"} : CatchRollback(o)
  \/ ErrorSleep

SpecEvolve == InitEvolve /\ [][NextEvolve]_vars

(* --------------------- calculateBayesianPriority ---------------------- *)

\* Values of getHistoricalSuccessRate / getResourceAvailability in hundredths
\* and of task.priority, on a grid that also leaves [0, 1] and 0..100.
ScoreGrid == {25 * k : k \in (-1)..(ScoreSteps + 1)}

ScoreInputs == [h : ScoreGrid, p : ScoreGrid, r : ScoreGrid]

\* Line 368: const urgency = task.priority / 100, in hundredths.
Urgency(priority) == priority

\* Variant of calculateBayesianPriority with the weights of the success
\* rate and of the availability exchanged.
calculateBayesianPrioritySwapped(in) ==
  (in.h * 2) + (Urgency(in.p) * 4) + (in.r * 4)

\* Mutation of calculateBayesianPriority: the availability term is subtracted.
calculateBayesianPriorityMinus(in) ==
  (in.h * 4) + (Urgency(in.p) * 4) - (in.r * 2)

\* Line 371: (historicalSuccess * 0.4) + (urgency * 0.4) +
\* (resourceAvailability * 0.2); inputs in hundredths, result in thousandths.
calculateBayesianPriority(in) ==
  (in.h * 4) + (Urgency(in.p) * 4) + (in.r * 2)

InitScore ==
  /\ workflow = <<>>
  /\ SchedIdle
  /\ context = [checkpoints |-> 0, currentStep |-> 0]
  /\ RecIdle
  /\ HealIdle
  /\ scoreIn \in ScoreInputs
  /\ scored = FALSE
  /\ scoreOut = 0
  /\ runNo = 1
  /\ EvoIdle

\* Lines 365-372: one call of calculateBayesianPriority.
CalculateBayesianPriority ==
  /\ ~scored
  /\ scored' = TRUE
  /\ scoreOut' = calculateBayesianPriority(scoreIn)
  /\ UNCHANGED <<scoreIn, schedVars, recVars, healVars, runNo, evoVars>>

NextScore == CalculateBayesianPriority

SpecScore == InitScore /\ [][NextScore]_vars

(* ------------------------------ fairness ------------------------------ *)

\* The event loop runs every continuation that is ready, and every agent
\* run that was started settles.
FairSpec ==
  /\ Spec
  /\ WF_vars(ExecuteAsync) /\ WF_vars(Launch) /\ WF_vars(AwaitRace)
  /\ WF_vars(Return) /\ WF_vars(Resume) /\ WF_vars(Throw)
  /\ \A i \in 1..maxConcurrency : SF_vars(\E o \in {"ok", "err"} : Finish(i, o))
  /\ \A n \in Ids : SF_vars(\E o \in {"ok", "err"} : FinishDetached(n, o))

(* ------------------------- notions of the claims ---------------------- *)

\* Agent runs started and not yet settled.
InFlight ==
  Cardinality({i \in DOMAIN executing : executing[i].st = "pending"})
    + DetachedTotal(detached)

\* The graph executeAsync builds from the workflow.
Graph == SetAll(<<>>, workflow)

GraphIds == {Graph[i].id : i \in DOMAIN Graph}

DepsOf(n) == UNION {Graph[i].dependencies : i \in {j \in DOMAIN Graph : Graph[j].id = n}}

RECURSIVE Closure(_)
Closure(S) ==
  LET T == S \cup UNION {DepsOf(m) : m \in S}
  IN  IF T = S THEN S ELSE Closure(T)

\* The dependency relation of the workflow contains a cycle.
HasCycle == \E n \in GraphIds : n \in Closure(DepsOf(n))

\* The step is a dispatch: executeTask was called and its promise pushed.
IsDispatch == Len(executing') = Len(executing) + 1

\* The model's bounds on `ready` and on detached promises stop the run here.
ResumeBlocked == pc = "race" /\ raceResult = "ok" /\ ~ENABLED Resume

(* ------------------------------- claims ------------------------------- *)

\* C1: the number of tasks dispatched to the agent executor and not yet
\* finished never exceeds maxConcurrency.
C1_ConcurrencyBound == InFlight <= maxConcurrency

\* C2: a node is in the result of getReadyTasks if and only if every one of
\* its dependencies has completed.
C2_ReadinessCorrect ==
  \A i \in DOMAIN nodes :
    (nodes[i] \in Range(getReadyTasks(nodes, executionPool)))
      <=> (nodes[i].dependencies \subseteq completed)

\* C3: no node is dispatched before every one of its dependencies has
\* completed.
C3_DispatchAfterDeps ==
  [][IsDispatch =>
       NodeOf(nodes, executing'[Len(executing')].task).dependencies \subseteq completed]_vars

\* C4: on a non-empty acyclic graph in which no task fails and every
\* dispatched task finishes, executeAsync eventually returns (or the run
\* reaches the model's bounds).
C4_Progress ==
  (workflow # <<>> /\ ~HasCycle /\ [](failed = {}))
     => <>(pc = "done" \/ ResumeBlocked)

\* C5: when executeAsync has returned successfully, every node of the
\* workflow has completed.
C5_SuccessImpliesCompletion ==
  pc = "done" => GraphIds \subseteq completed

\* C6: on a graph whose dependency relation contains a cycle, no task is ever
\* dispatched.
C6_CyclicNeverDispatches ==
  HasCycle => (executionPool = {} /\ \A n \in Ids : dispatched[n] = 0)

\* C7: a run on a graph containing a dependency cycle never ends as a success.
C7_CycleReported ==
  HasCycle => pc # "done"

\* C8: strategies are attempted in registration order, and strategy k+1 is
\* attempted only after strategy k was attempted and failed.
C8_RecoveryOrdering ==
  /\ Len(attempts) <= Len(strategies)
  /\ \A k \in DOMAIN attempts : attempts[k].name = strategies[k].name
  /\ \A k \in DOMAIN attempts : k > 1 => attempts[k - 1].result # "truthy"

\* C9: once a strategy's attempt has succeeded, no later strategy is invoked
\* and autoRecover returns that strategy's outcome.
C9_FirstSuccessWins ==
  \A k \in DOMAIN attempts :
    attempts[k].result = "truthy" =>
      /\ k = Len(attempts)
      /\ rpc = "returned" => returned = attempts[k].name

\* The delays of the backoff schedule, in milliseconds.
BackoffSchedule == <<1000, 2000, 4000, 8000, 16000>>

\* C10: the retry strategy makes at most 5 attempts, waits 2^i units before
\* attempt i, stops at the first attempt that does not throw, and gives up
\* (throws) exactly after the 5th failed attempt.
C10_BackoffSchedule ==
  /\ Len(retryLog) <= 5
  /\ Len(sleeps) <= 5
  /\ sleeps = SubSeq(BackoffSchedule, 1, Len(sleeps))
  /\ Len(sleeps) \in {Len(retryLog), Len(retryLog) + 1}
  /\ \A j \in 1..(Len(retryLog) - 1) : retryLog[j] = "throw"
  /\ retryEnd = "returned" =>
       (retryLog # <<>> /\ Last(retryLog) # "throw" /\ Len(sleeps) = Len(retryLog))
  /\ retryEnd = "threw" =>
       (Len(retryLog) = 5 /\ Last(retryLog) = "throw" /\ Len(sleeps) = 5)
  /\ (Len(retryLog) = 5 /\ Last(retryLog) = "throw") => retryEnd = "threw"
  /\ (retryLog # <<>> /\ Last(retryLog) # "throw") => retryEnd = "returned"

\* C10 witness: five failed attempts after waiting 1, 2, 4, 8, 16 seconds.
C10_Witness ==
  /\ retryEnd = "threw"
  /\ retryLog = <<"throw", "throw", "throw", "throw", "throw">>
  /\ sleeps = BackoffSchedule


\* Every strategy of the chain was attempted and none returned a truthy value.
ChainExhausted ==
  /\ Len(attempts) = Len(strategies)
  /\ \A k \in DOMAIN attempts : attempts[k].result # "truthy"

\* C11: if every one of the four strategies fails, autoRecover returns null
\* and executeWithSelfHealing throws the error it caught; it never returns
\* a result.
C11_RecoveryExhaustion ==
  ChainExhausted =>
    /\ rpc = "returned" => returned = "null"
    /\ hpc # "returned" /\ hresult = "none"
    /\ hpc = "threw" => (thrown = herror /\ thrown # "none")

\* C11 witness: the four strategies failed and the caught execution error
\* was thrown to the caller.
C11_Witness ==
  /\ ChainExhausted
  /\ hpc = "threw"
  /\ executed = "throw"
  /\ thrown = "execution"

\* C12: an error reaches the caller of executeWithSelfHealing only after all
\* four strategies were attempted and none of them succeeded.
C12_RecoveryBeforePropagation ==
  hpc = "threw" => ChainExhausted

\* C15: an error of the failure predictor never starts the recovery chain;
\* the workflow is executed as with probability 0.
C15_PredictorAdvisory ==
  herror = "predictor" => (rpc = "idle" /\ attempts = <<>> /\ hpc # "threw")


\* C13: a task failure ends the run as a whole only when the failed node
\* blocks the rest of the graph: every other node has completed or depends
\* on a failed node.
C13_FailureIsolation ==
  pc = "threw" =>
    \A n \in GraphIds \ failed :
      n \in completed \/ Closure(DepsOf(n)) \cap failed # {}

\* C14: once a task failure has ended the run, the run dispatches no further
\* task and waits on no in-flight task, even if ready tasks remain.
C14_NoDispatchAfterThrow ==
  [][pc = "threw" =>
       /\ pc' = "threw"
       /\ ~IsDispatch
       /\ ready' = ready
       /\ executionPool' = executionPool
       /\ dispatched' = dispatched
       /\ raceResult' = raceResult]_vars

\* C14 witness: the run has thrown while a ready task and an in-flight task
\* remain.
C14_Witness ==
  /\ pc = "threw"
  /\ ready # <<>>
  /\ \E i \in DOMAIN executing : executing[i].st = "pending"

\* C19: in one run every node is dispatched at most once.
C19_AtMostOnce ==
  \A n \in Ids : dispatched[n] <= 1

PriorityOf(id) == NodeOf(nodes, id).priority

PositionOf(id) == CHOOSE i \in DOMAIN nodes : nodes[i].id = id

\* C20: every dispatched task has the highest priority among the tasks in
\* the ready list at that moment, ties going to the node declared first.
C20_HighestPriorityFirst ==
  [][IsDispatch =>
       \A j \in DOMAIN ready :
         \/ PriorityOf(ready[j]) < PriorityOf(Head(ready))
         \/ /\ PriorityOf(ready[j]) = PriorityOf(Head(ready))
            /\ PositionOf(Head(ready)) <= PositionOf(ready[j])]_vars


\* C16: raising any one input of the scorer while the other two are held
\* fixed never lowers the score, and the score is a function of the three
\* inputs alone.
C16_ScorerMonotone ==
  scored =>
    /\ \A v \in ScoreGrid : v >= scoreIn.h =>
         calculateBayesianPriority([scoreIn EXCEPT !.h = v]) >= scoreOut
    /\ \A v \in ScoreGrid : v >= scoreIn.p =>
         calculateBayesianPriority([scoreIn EXCEPT !.p = v]) >= scoreOut
    /\ \A v \in ScoreGrid : v >= scoreIn.r =>
         calculateBayesianPriority([scoreIn EXCEPT !.r = v]) >= scoreOut
    /\ \A v \in ScoreGrid : v <= scoreIn.h =>
         calculateBayesianPriority([scoreIn EXCEPT !.h = v]) <= scoreOut
    /\ \A v \in ScoreGrid : v <= scoreIn.p =>
         calculateBayesianPriority([scoreIn EXCEPT !.p = v]) <= scoreOut
    /\ \A v \in ScoreGrid : v <= scoreIn.r =>
         calculateBayesianPriority([scoreIn EXCEPT !.r = v]) <= scoreOut

\* C16 witness: the scorer was applied to an input strictly inside the grid,
\* so that each input can be raised and lowered.
C16_Witness ==
  /\ scored
  /\ scoreIn = [h |-> 50, p |-> 50, r |-> 50]
  /\ scoreOut = 500

(* ------------------------- successive runs --------------------------- *)

\* Ids of the tasks the current call of executeAsync has started.
StartedThisRun == {n \in Ids : dispatched[n] > 0}

\* C17 (no state shared between runs): at every point of a call, the ready
\* list the scheduler would compute from the object's fields is the one
\* computed from this call's own nodes and this call's own started tasks;
\* nodes and executions left by an earlier call play no part.
C17_NoSharedState ==
  pc # "idle" =>
    getReadyTasks(nodes, executionPool) = getReadyTasks(Graph, StartedThisRun)

\* Index of the first node of the workflow that carries the id.
FirstIndex(id) ==
  CHOOSE i \in DOMAIN workflow :
    /\ workflow[i].id = id
    /\ \A j \in DOMAIN workflow : workflow[j].id = id => i <= j

\* C18 (duplicate node ids rejected): once the first call has added the
\* workflow's nodes, the node kept under each id is the first one listed
\* with that id; a later node with the same id never replaces it.
C18_DuplicateRejected ==
  (runNo = 1 /\ pc # "idle") =>
    \A i \in DOMAIN workflow :
      NodeOf(nodes, workflow[i].id) = workflow[FirstIndex(workflow[i].id)]

(* ------------------------------ unblocking ---------------------------- *)

AllDispatched == \A n \in GraphIds : dispatched[n] > 0

\* Every dependency names a node of the workflow.
DepsClosed == \A n \in GraphIds : DepsOf(n) \subseteq GraphIds

RetryExhausted ==
  /\ retryEnd = "threw"
  /\ Len(retryLog) = maxRetries
  /\ \A k \in DOMAIN retryLog : retryLog[k] = "throw"

\* C22 (backoff fall-through): the retry strategy ends by throwing only
\* after maxRetries failed attempts; autoRecover then goes on, and by the
\* time it returns, checkpoint_rollback has been attempted as the second
\* strategy.
C22_BackoffFallThrough ==
  /\ retryEnd = "threw" => RetryExhausted
  /\ (retryEnd = "threw" /\ rpc = "returned") =>
       /\ Len(attempts) >= 2
       /\ attempts[1] = [name |-> "exponential_backoff_retry", result |-> "throw"]
       /\ attempts[2].name = "checkpoint_rollback"

\* C22 witness: all five retries threw and checkpoint_rollback was attempted
\* next.
C22_Witness ==
  /\ RetryExhausted
  /\ Len(attempts) = 2
  /\ attempts[2].name = "checkpoint_rollback"

\* The attempts made with the named strategy.
AttemptsOf(name) == {k \in DOMAIN attempts : attempts[k].name = name}

\* C23 (rollback without checkpoint fails over): with no checkpoint in the
\* context, checkpoint_rollback never yields a recovery: its attempt counts
\* as failed and autoRecover does not return its value.
C23_RollbackWithoutCheckpoint ==
  context.checkpoints = 0 =>
    /\ \A k \in AttemptsOf("checkpoint_rollback") : attempts[k].result # "truthy"
    /\ returned # "checkpoint_rollback"

\* C24 (alternate routing without a route fails over): when no alternate
\* path was found, alternate_path_routing never yields a recovery: its
\* attempt counts as failed and autoRecover does not return its value.
C24_RoutingWithoutRoute ==
  alternatePath = "none" =>
    /\ \A k \in AttemptsOf("alternate_path_routing") : attempts[k].result # "truthy"
    /\ returned # "alternate_path_routing"

C26_OutcomeRecorded ==
  rpc = "returned" =>
    /\ Len(recorded) = 1
    /\ recorded[1] = (IF returned = "null" THEN "exhausted" ELSE returned)

(* ------------------------- preventive measures ------------------------ *)

\* C27 (preventive measures threshold): preventive measures are applied
\* only for a predicted probability strictly above 0.7 (7 tenths); whenever
\* the workflow has been executed they were applied if and only if the
\* probability was above 0.7; and they are applied while the workflow has
\* not been executed yet.
C27_PreventiveThreshold ==
  /\ [](prevented => probability > 7)
  /\ [](executed # "no" => (prevented <=> probability > 7))
  /\ [][prevented' # prevented => executed = "no" /\ executed' = "no"]_vars

\* C27 witness: at the threshold itself (0.7) the workflow was executed
\* without preventive measures.
C27_Witness ==
  /\ probability = 7
  /\ ~prevented
  /\ executed = "ok"

(* --------------------------- readiness query -------------------------- *)

\* The steps of executeAsync that call getReadyTasks: line 329 (after the
\* nodes were added) and line 347 (after a fulfilled race).
IsFirstQuery == pc = "idle" /\ pc' = "while"

IsRefillQuery == pc = "race" /\ pc' = "while"

\* C28 (readiness query is pure): a step that calls getReadyTasks leaves the
\* stored nodes (beyond the nodes line 327 has just set) and the record of
\* started executions as they were, so that asking again at once gives the
\* same sequence.
C28_ReadinessQueryPure ==
  [][/\ IsFirstQuery =>
          /\ nodes' = SetAll(nodes, workflow)
          /\ executionPool' = executionPool
     /\ IsRefillQuery =>
          /\ nodes' = nodes
          /\ executionPool' = executionPool
          /\ getReadyTasks(nodes', executionPool') = getReadyTasks(nodes, executionPool)
    ]_vars

\* C28 witness: the query has listed a node that was already started, and
\* the node is still on record as started.
C28_Witness ==
  /\ pc = "while"
  /\ \E k \in DOMAIN ready : ready[k] \in executionPool

(* ------------------------------ scorer -------------------------------- *)

\* C29 (scorer formula): the score is 0.4 x success rate + 0.4 x
\* (priority / 100) + 0.2 x availability; with the rates in hundredths and
\* the score in thousandths that is 4 x h + 4 x p + 2 x r.
C29_ScorerFormula ==
  scored => scoreOut = (4 * scoreIn.h) + (4 * scoreIn.p) + (2 * scoreIn.r)

\* C29 witness: success rate 1, priority 0 and availability 0.25 score 0.45.
C29_Witness ==
  /\ scored
  /\ scoreIn = [h |-> 100, p |-> 0, r |-> 25]
  /\ scoreOut = 450

\* C30 (scorer range): the score lies in [0,1] (0..1000 thousandths) for
\* every input, inputs outside their ranges included.
C30_ScorerRange ==
  scored => (0 <= scoreOut /\ scoreOut <= 1000)

(* ------------------------- in-flight bookkeeping ---------------------- *)

\* C31 (in-flight bookkeeping): at every iteration of the scheduler loop
\* `executing` holds exactly the tasks that were dispatched and have not
\* finished: no finished task's promise is still in it and no unfinished
\* task's promise has been dropped from it.
C31_InFlightBookkeeping ==
  pc = "while" =>
    /\ \A i \in DOMAIN executing : executing[i].st = "pending"
    /\ DetachedTotal(detached) = 0

\* C32 (success is truthiness): only a truthy value makes autoRecover
\* return a strategy's result; a falsy result of the retry strategy ends its
\* retries at once; and after a falsy result the next strategy of the list
\* is the one attempted.
C32_SuccessIsTruthiness ==
  /\ returned \notin {"pending", "null"} =>
       /\ Last(attempts).result = "truthy"
       /\ Last(attempts).name = returned
  /\ \A k \in DOMAIN retryLog : retryLog[k] # "throw" => k = Len(retryLog)
  /\ (retryLog # <<>> /\ Last(retryLog) = "falsy") =>
       /\ retryEnd = "returned"
       /\ attempts[1] = [name |-> "exponential_backoff_retry", result |-> "falsy"]
  /\ \A k \in DOMAIN attempts :
       (attempts[k].result = "falsy" /\ (k < Len(attempts) \/ rpc = "returned")) =>
         IF k < Len(strategies)
           THEN k < Len(attempts) /\ attempts[k + 1].name = strategies[k + 1].name
           ELSE returned = "null"

\* C32 witness: the retry strategy returned a falsy value on its second
\* attempt, no third attempt was made and checkpoint_rollback was attempted.
C32_Witness ==
  /\ retryLog = <<"throw", "falsy">>
  /\ Len(sleeps) = 2
  /\ Len(attempts) = 2
  /\ attempts[2].name = "checkpoint_rollback"

\* C33 (recovery only after an execution failure): the recovery chain runs
\* only when the execution of the workflow (line 423) failed; after a
\* successful execution no strategy re-executes the workflow.
C33_RecoveryOnlyAfterFailure ==
  /\ rpc # "idle" => executed = "throw"
  /\ executed = "ok" => (attempts = <<>> /\ retryLog = <<>>)

(* --------------------------- evolution cycle -------------------------- *)

\* C34 (deploy only if validated): progressive deployment has started in
\* an iteration only if validateEvolutions returned true in that iteration.
C34_DeployOnlyIfValidated ==
  (epc = "deploy" \/ deployLog # <<>>) => validated = "true"

\* C35 (the evolution loop survives errors): no error of a step ends
\* startEvolutionCycle; once the catch holds the error of a step the loop
\* is on its way to the next iteration and never rejects.
C35_LoopSurvivesErrors ==
  epc # "rejected"

InLog(event) == \E k \in DOMAIN deployLog : deployLog[k] = event

C37_CommitOnlyTested ==
  /\ \A c \in commits : testsPassed[c.task] = "pass"
  /\ \A t \in TaskIds :
       testsPassed[t] = "fail" => \A c \in commits : t \notin c.changes

=============================================================================
